---- MODULE Spec2Model ----
(***************************************************************************)
(* A model of the sitesearch indexing pipeline (src/sitesearch/indexer.py) *)
(* and of the document extraction it feeds on.                             *)
(*                                                                         *)
(* Python strings are sequences of one-character strings, so that string   *)
(* operations (strip, split, replace, concatenation of doc ids) are        *)
(* computed and not assumed.                                               *)
(***************************************************************************)
EXTENDS Integers, Sequences, FiniteSets, TLC

(***************************************************************************)
(* Bounds of the model.                                                    *)
(***************************************************************************)
MaxH2 == 2          \* H2 headings per page in the extraction specification
MaxRuns == 2        \* indexing runs (one process each) in a behaviour
NumWorkers == 2     \* stands for MAX_THREADS = cpu_count() * 5
NumGroups == 2      \* synonym groups of the configured site
MaxTime == 301      \* the clock stops advancing beyond this
MaxDepth == 2       \* the site has the pages PageUrl(0) .. PageUrl(MaxDepth)
MaxDocs == 2        \* documents a crawl yields; its later fetches fail
MaxSegments == 3    \* path segments of a URL in the hierarchy specification
NumFiles == 3       \* files given to prepare_files at most
NumSites == 2       \* config.sites
MaxJobs == 5        \* jobs ever put on the task queue
NumRqWorkers == 1   \* worker processes of the task queue
MaxNodes == 4       \* children of the content element of a page
MaxQueryLen == 3    \* characters of a raw query
MaxTokens == 2      \* tokens of a raw query given to the query builder
NumProcs == 2       \* processes that index one site concurrently

(***************************************************************************)
(* Program constants.                                                      *)
(***************************************************************************)
DEBOUNCE_SECONDS == 300
INDEXING_TIMEOUT == 3600

TYPE_PAGE == "page"
TYPE_SECTION == "section"

(***************************************************************************)
(* Python string operations on sequences of characters.                    *)
(***************************************************************************)
Whitespace == {" ", "\n"}

RECURSIVE LStripChars(_, _)
LStripChars(s, chars) ==
    IF s # <<>> /\ Head(s) \in chars THEN LStripChars(Tail(s), chars) ELSE s

RECURSIVE RStripChars(_, _)
RStripChars(s, chars) ==
    IF s # <<>> /\ s[Len(s)] \in chars
    THEN RStripChars(SubSeq(s, 1, Len(s) - 1), chars)
    ELSE s

\* str.strip(chars)
StripChars(s, chars) == RStripChars(LStripChars(s, chars), chars)

\* s.startswith(p)
StartsWith(s, p) == Len(p) <= Len(s) /\ SubSeq(s, 1, Len(p)) = p

\* str.replace(old, new), old non-empty: leftmost non-overlapping occurrences
RECURSIVE Replace(_, _, _)
Replace(s, old, new) ==
    IF s = <<>> THEN <<>>
    ELSE IF StartsWith(s, old)
         THEN new \o Replace(SubSeq(s, Len(old) + 1, Len(s)), old, new)
         ELSE <<Head(s)>> \o Replace(Tail(s), old, new)

\* str.split(sep) for a one-character separator: always at least one field
RECURSIVE SplitFrom(_, _, _)
SplitFrom(s, sep, cur) ==
    IF s = <<>> THEN <<cur>>
    ELSE IF Head(s) = sep
         THEN <<cur>> \o SplitFrom(Tail(s), sep, <<>>)
         ELSE SplitFrom(Tail(s), sep, Append(cur, Head(s)))

Split(s, sep) == SplitFrom(s, sep, <<>>)

\* str(i) for a natural number
Digit(d) == <<"0", "1", "2", "3", "4", "5", "6", "7", "8", "9">>[d + 1]

RECURSIVE Str(_)
Str(i) == IF i < 10 THEN <<Digit(i)>> ELSE Append(Str(i \div 10), Digit(i % 10))

\* the set of elements of a sequence
Range(f) == {f[i] : i \in DOMAIN f}

(***************************************************************************)
(* Optional values: <<>> is Python's None, <<v>> is the value v.           *)
(***************************************************************************)
Nothing == <<>>
Some(v) == <<v>>
IsSome(o) == o # <<>>
Get(o) == o[1]

(***************************************************************************)
(* A fetched page as BeautifulSoup presents it to prepare_document:        *)
(*   title : Nothing when soup.title is None, else Some(string) where      *)
(*           string is Nothing when soup.title.string is None;             *)
(*   h2s   : content.find_all('h2'), in document order; each heading has   *)
(*           string (tag.string, Nothing when None) and a (the text of     *)
(*           tag.find("a"), Nothing when there is no anchor).              *)
(***************************************************************************)
Heading(string, a) == [string |-> string, a |-> a]
Html(title, h2s) == [title |-> title, h2s |-> h2s]

\* DocumentParser.prepare_text
prepare_text(text) ==
    Replace(StripChars(StripChars(text, Whitespace), {"\n"}), <<"\n">>, <<" ">>)

\* soup.title.string.split("|")[0] raises AttributeError when soup.title or
\* soup.title.string is None
TitleRaises(html) == ~IsSome(html.title) \/ ~IsSome(Get(html.title))

TitleOf(html) == prepare_text(Split(Get(Get(html.title)), "|")[1])

\* url.replace(root_url, "").replace("//", "/").split("/")[1], "" on IndexError
SectionOf(root_url, url) ==
    LET parts == Split(Replace(Replace(url, root_url, <<>>), <<"/", "/">>, <<"/">>), "/")
    IN  IF Len(parts) >= 2 THEN parts[2] ELSE <<>>

\* the title of one H2: the tag's own text, or that of its first anchor when
\* tag.string is None, or "" when there is no anchor either
PartTitle(h) ==
    IF IsSome(h.string) THEN Get(h.string)
    ELSE IF IsSome(h.a) THEN Get(h.a)
    ELSE <<>>

SearchDocument(doc_id, title, section_title, url, type, s, position) ==
    [doc_id |-> doc_id, title |-> title, section_title |-> section_title,
     hierarchy |-> <<>>, url |-> url, type |-> type, s |-> s,
     position |-> position]

\* a section document whose doc_id lacks the trailing index
SectionDocumentNoIndex(doc, h, i) ==
    SearchDocument(doc.url \o <<":">> \o doc.title \o <<":">> \o PartTitle(h),
                   doc.title, PartTitle(h), doc.url, TYPE_SECTION, doc.s, i)

\* the document extract_parts builds for heading number i (counted from 0)
SectionDocument(doc, h, i) ==
    SearchDocument(doc.url \o <<":">> \o doc.title \o <<":">> \o PartTitle(h)
                       \o <<":">> \o Str(i),
                   doc.title, PartTitle(h), doc.url, TYPE_SECTION, doc.s, i)

\* DocumentParser.extract_parts: one section document per H2, in order
extract_parts(doc, h2s) == [k \in 1..Len(h2s) |-> SectionDocument(doc, h2s[k], k - 1)]

\* the page document of prepare_document
PageDocument(root_url, url, html) ==
    SearchDocument(url \o <<":">> \o TitleOf(html), TitleOf(html), <<>>, url,
                   TYPE_PAGE, SectionOf(root_url, url), 0)

\* DocumentParser.prepare_document: the documents, or <<>> with raised = TRUE
\* when ParseError is raised
prepare_document(root_url, url, html) ==
    IF TitleRaises(html)
    THEN [raised |-> TRUE, docs |-> <<>>]
    ELSE LET doc == PageDocument(root_url, url, html)
         IN  [raised |-> FALSE, docs |-> <<doc>> \o extract_parts(doc, html.h2s)]

(***************************************************************************)
(* Validators.  The validator functions are configuration of the site; a   *)
(* validator is given here by the set of <<type, position>> of documents   *)
(* it rejects (by raising ParseError, the one error its callers catch).    *)
(***************************************************************************)
Rejects(v, doc) == <<doc.type, doc.position>> \in v

\* DocumentParser.validate: the number of validators called on doc, the
\* rejecting one included
RECURSIVE ValidatorsCalled(_, _)
ValidatorsCalled(validators, doc) ==
    IF validators = <<>> THEN 0
    ELSE IF Rejects(Head(validators), doc) THEN 1
    ELSE 1 + ValidatorsCalled(Tail(validators), doc)

validate_raises(validators, doc) == \E j \in DOMAIN validators : Rejects(validators[j], doc)

\* DocumentParser.parse, after prepare_document: the sequence of calls
\* <<document index, validator index>> made, up to the first rejection
RECURSIVE ValidationCalls(_, _, _)
ValidationCalls(validators, docs, k) ==
    IF k > Len(docs) THEN <<>>
    ELSE LET n == ValidatorsCalled(validators, docs[k])
             here == [j \in 1..n |-> <<k, j>>]
         IN  IF validate_raises(validators, docs[k]) THEN here
             ELSE here \o ValidationCalls(validators, docs, k + 1)

\* a parse that keeps the documents validated before the rejection
parse_keeps_valid(root_url, validators, url, html) ==
    LET prepared == prepare_document(root_url, url, html)
        bad == {k \in DOMAIN prepared.docs : validate_raises(validators, prepared.docs[k])}
    IN  IF prepared.raised
        THEN [raised |-> TRUE, error |-> "missing title", docs |-> <<>>, calls |-> <<>>]
        ELSE IF bad # {}
             THEN [raised |-> TRUE, error |-> "validation",
                   docs |-> SubSeq(prepared.docs, 1,
                                   (CHOOSE k \in bad : \A j \in bad : k <= j) - 1),
                   calls |-> ValidationCalls(validators, prepared.docs, 1)]
             ELSE [raised |-> FALSE, error |-> "", docs |-> prepared.docs,
                   calls |-> ValidationCalls(validators, prepared.docs, 1)]

\* DocumentParser.parse: docs_for_page, or raised = TRUE for a ParseError of
\* prepare_document ("missing title") or of a validator ("validation");
\* calls are the validator calls made
parse(root_url, validators, url, html) ==
    LET prepared == prepare_document(root_url, url, html)
    IN  IF prepared.raised
        THEN [raised |-> TRUE, error |-> "missing title", docs |-> <<>>, calls |-> <<>>]
        ELSE IF \E k \in DOMAIN prepared.docs : validate_raises(validators, prepared.docs[k])
             THEN [raised |-> TRUE, error |-> "validation", docs |-> <<>>,
                   calls |-> ValidationCalls(validators, prepared.docs, 1)]
             ELSE [raised |-> FALSE, error |-> "", docs |-> prepared.docs,
                   calls |-> ValidationCalls(validators, prepared.docs, 1)]

(***************************************************************************)
(* Indexer.build_hierarchy.                                                *)
(***************************************************************************)
\* sep.join(strings)
RECURSIVE JoinWith(_, _)
JoinWith(strings, sep) ==
    IF strings = <<>> THEN <<>>
    ELSE IF Len(strings) = 1 THEN strings[1]
    ELSE strings[1] \o sep \o JoinWith(Tail(strings), sep)

\* dict.get(key): None when the key is missing
DictGet(dict, key) == IF key \in DOMAIN dict THEN Some(dict[key]) ELSE Nothing

\* the truth value of dict.get's result: None and "" are false
Truthy(page) == IsSome(page) /\ Get(page) # <<>>

\* the loop of build_hierarchy over enumerate(parts), from the part numbered
\* i (counted from 1 here) on
RECURSIVE HierarchyFrom(_, _, _, _)
HierarchyFrom(seen, joinable_site_url, parts, i) ==
    IF i > Len(parts) THEN <<>>
    ELSE LET path_url == JoinWith(<<joinable_site_url>> \o SubSeq(parts, 1, i - 1)
                                      \o <<parts[i]>>, <<"/">>)
             page == DictGet(seen, path_url)
         IN  (IF Truthy(page) THEN <<Get(page)>> ELSE <<>>)
                 \o HierarchyFrom(seen, joinable_site_url, parts, i + 1)

\* a build_hierarchy whose loop does not skip the first part
build_hierarchy_from_first(site_url, seen, doc_url) ==
    LET url == StripChars(Replace(Replace(doc_url, site_url, <<>>),
                                  <<"/", "/">>, <<"/">>), {"/"})
    IN  HierarchyFrom(seen, RStripChars(site_url, {"/"}), Split(url, "/"), 1)

\* Indexer.build_hierarchy(doc) for doc.url, with self.site.url and
\* self.seen_urls; the part with index 0 is skipped
build_hierarchy(site_url, seen, doc_url) ==
    LET url == StripChars(Replace(Replace(doc_url, site_url, <<>>),
                                  <<"/", "/">>, <<"/">>), {"/"})
    IN  HierarchyFrom(seen, RStripChars(site_url, {"/"}), Split(url, "/"), 2)

\* Indexer.build_hierarchy: parts, of which the loop skips parts[0] (numbered
\* 1 here)
HierarchyParts(site_url, doc_url) ==
    Split(StripChars(Replace(Replace(doc_url, site_url, <<>>),
                             <<"/", "/">>, <<"/">>), {"/"}), "/")

(***************************************************************************)
(* The configured site and the web site it is crawled from.                *)
(***************************************************************************)
\* site.url, also the spider's start URL
SiteUrl == <<"r", "/">>

\* the page k levels below the root: r/, r/a/, r/a/a/, ...
RECURSIVE PageUrl(_)
PageUrl(k) == IF k = 0 THEN SiteUrl ELSE PageUrl(k - 1) \o <<"a", "/">>

SiteUrls == {PageUrl(k) : k \in 0..MaxDepth}

\* the links LinkExtractor finds on a page: the next deeper page and the root
Links(u) == {v \in SiteUrls : Len(v) = Len(u) + 2} \cup {SiteUrl}

\* what a fetch of a page may return: no <title>, a title only, a title and
\* one H2, a title and two H2
CrawledHtml ==
    { Html(Nothing, <<>>),
      Html(Some(Some(<<"t">>)), <<>>),
      Html(Some(Some(<<"t">>)), <<Heading(Some(<<"h">>), Nothing)>>),
      Html(Some(Some(<<"t">>)), <<Heading(Some(<<"h">>), Nothing),
                                  Heading(Nothing, Some(<<"h">>))>>) }

\* site.validators: one that rejects nothing on this site, then one that
\* rejects the second section of a page
SiteValidators == << {}, {<<TYPE_SECTION, 1>>} >>

\* site.synonym_groups, by group id
SynonymGroups == [g \in 1..NumGroups |-> g]

\* what the hset of index_document may do: succeed, or raise
WriteOutcomes == {"ok", "DataError", "ResponseError", "Exception"}

\* the clock advances between runs by one of these
TickSteps == {200, 301}

VARIABLES
    \* the search engine and the clock, shared by all runs
    now,            \* datetime.datetime.now().timestamp()
    indexExists,    \* whether the engine holds an index for the site
    lastIndex,      \* the value at keys.last_index(site.url), Nothing if unset
    \* one indexing run: Indexer(site, rebuild_index).index(force)
    runs,           \* runs started so far
    pc,             \* where the run's main thread is
    rebuild_index,  \* Indexer.__init__'s argument
    force,          \* Indexer.index's argument
    index_exists,   \* the local of Indexer.__init__
    calls,          \* engine calls made by Indexer.__init__, in order
    time_diff,      \* the local of debounce(), Nothing when not computed
    frontier,       \* requests scheduled by the crawler
    requested,      \* URLs the crawler has seen (its duplicate filter)
    scraped,        \* items yielded by Spider.parse, awaiting item_scraped
    seen_urls,      \* Indexer.seen_urls
    validated,      \* per parsed URL, the validator calls made on its documents
    queue,          \* docs_to_process
    unfinished,     \* docs_to_process.unfinished_tasks
    wpc,            \* where each index_documents thread is
    wdoc,           \* the local doc of each index_documents thread
    \* the run's history, for the properties
    errors,         \* log.error entries
    got,            \* per document, how often it was dequeued
    attempts,       \* per document, how often index_document was called on it
    acked,          \* per document, how often task_done followed it
    written,        \* documents whose hset succeeded
    hierarchies,    \* per document, the hierarchy document_to_dict computed
    tsUnfinished,   \* unfinished_tasks when the timestamp was written
    \* the extraction specification
    expc, input, output,
    \* docsearch's Indexer.prepare_files
    bpc,            \* where prepare_files is
    files,          \* its argument
    file,           \* the variable of its loop over files
    futures,        \* the futures as_completed has not yielded yet
    all_docs,       \* its local docs
    file_errors,    \* its local errors
    custom_validators,  \* whether Indexer was constructed with validators
    \* the scheduler command and the jobs of the task queue
    spc,            \* where the scheduler command is
    site_i,         \* the site of its loop over config.sites
    jobs,           \* the jobs of the queue, by job id
    job_ids,        \* the set at keys.startup_indexing_job_ids()
    cron,           \* the cron entries registered with the scheduler
    expiry,         \* when the set at startup_indexing_job_ids expires
    \* indexing runs of one site in concurrent processes
    rpc,            \* where each process is in Indexer(site).index(force)
    rforce,         \* its argument force
    rread,          \* the timestamp its debounce() read, and when
    rwrote          \* whether it wrote documents of the site

vars == <<now, indexExists, lastIndex, runs, pc, rebuild_index,
          force, index_exists, calls, time_diff, frontier, requested, scraped,
          seen_urls, validated, queue, unfinished, wpc, wdoc, errors, got,
          attempts, acked, written, hierarchies, tsUnfinished, expc, input, output,
          bpc, files, file, futures, all_docs, file_errors, custom_validators,
          spc, site_i, jobs, job_ids, cron, expiry,
          rpc, rforce, rread, rwrote>>

engineVars == <<indexExists, lastIndex>>
crawlVars == <<frontier, requested, scraped, seen_urls, validated>>
workerVars == <<wpc, wdoc, got, attempts, acked, written, hierarchies>>
extractVars == <<expc, input, output>>
batchVars == <<bpc, files, file, futures, all_docs, file_errors, custom_validators>>
schedVars == <<spc, site_i, jobs, job_ids, cron, expiry>>
raceVars == <<rpc, rforce, rread, rwrote>>

Workers == 1..NumWorkers

EmptyMap == [x \in {} |-> 0]

\* the state of a process that has not started a run
FreshRun ==
    /\ index_exists = FALSE
    /\ calls = <<>>
    /\ time_diff = Nothing
    /\ frontier = {}
    /\ requested = {}
    /\ scraped = <<>>
    /\ seen_urls = EmptyMap
    /\ validated = EmptyMap
    /\ queue = <<>>
    /\ unfinished = 0
    /\ wpc = [w \in Workers |-> "off"]
    /\ wdoc = [w \in Workers |-> Nothing]
    /\ errors = {}
    /\ got = EmptyMap
    /\ attempts = EmptyMap
    /\ acked = EmptyMap
    /\ written = {}
    /\ hierarchies = EmptyMap
    /\ tsUnfinished = Nothing

NoExtraction ==
    /\ expc = "unused"
    /\ input = Nothing
    /\ output = Nothing

NoBatch ==
    /\ bpc = "unused"
    /\ files = <<>>
    /\ file = Nothing
    /\ futures = {}
    /\ all_docs = <<>>
    /\ file_errors = <<>>
    /\ custom_validators = FALSE

NoScheduler ==
    /\ spc = "unused"
    /\ site_i = 1
    /\ jobs = <<>>
    /\ job_ids = {}
    /\ cron = {}
    /\ expiry = Nothing

NoRace ==
    /\ rpc = <<>>
    /\ rforce = <<>>
    /\ rread = <<>>
    /\ rwrote = <<>>

Init ==
    /\ now = 0
    /\ indexExists = FALSE
    /\ lastIndex = Nothing
    /\ runs = 0
    /\ pc = "idle"
    /\ rebuild_index = FALSE
    /\ force = FALSE
    /\ FreshRun
    /\ NoExtraction
    /\ NoBatch
    /\ NoScheduler
    /\ NoRace

\* time passes between two runs
Tick(d) ==
    /\ pc = "idle"
    /\ now + d <= MaxTime
    /\ now' = now + d
    /\ UNCHANGED <<indexExists, lastIndex, runs, pc, rebuild_index,
                   force, index_exists, calls, time_diff, frontier, requested,
                   scraped, seen_urls, validated, queue, unfinished, wpc, wdoc,
                   errors, got, attempts, acked, written, hierarchies, tsUnfinished,
                   expc, input, output, batchVars, schedVars, raceVars>>

\* a job starts in a new process: Indexer(site, rebuild_index=rb), then
\* index(force=f)
StartRun(rb, f) ==
    /\ pc = "idle"
    /\ runs < MaxRuns
    /\ runs' = runs + 1
    /\ pc' = "init"
    /\ rebuild_index' = rb
    /\ force' = f
    /\ UNCHANGED <<now, engineVars, index_exists, calls, time_diff, crawlVars,
                   queue, unfinished, workerVars, errors, tsUnfinished,
                   extractVars, batchVars, schedVars, raceVars>>

\* an __init__ that rebuilds without dropping the index it found
AfterInfoNoDrop(rb, exists) == IF rb \/ ~exists THEN "setup" ELSE "ready"

\* Indexer.__init__ after search_index_exists(): what it does next
AfterInfo(rb, exists) ==
    IF rb THEN (IF exists THEN "drop" ELSE "setup")
    ELSE IF ~exists THEN "setup" ELSE "ready"

\* Indexer.search_index_exists, called by Indexer.__init__
SearchIndexExists ==
    /\ pc = "init"
    /\ index_exists' = indexExists
    /\ calls' = Append(calls, <<"info", 0>>)
    /\ pc' = AfterInfo(rebuild_index, indexExists)
    /\ UNCHANGED <<now, engineVars, runs, rebuild_index, force,
                   time_diff, crawlVars, queue, unfinished, workerVars, errors,
                   tsUnfinished, extractVars, batchVars, schedVars, raceVars>>

\* self.search_client.drop_index() of Indexer.__init__
DropIndex ==
    /\ pc = "drop"
    /\ indexExists' = FALSE
    /\ calls' = Append(calls, <<"drop_index", 0>>)
    /\ pc' = "setup"
    /\ UNCHANGED <<now, lastIndex, runs, rebuild_index, force,
                   index_exists, time_diff, crawlVars, queue, unfinished,
                   workerVars, errors, tsUnfinished, extractVars, batchVars, schedVars, raceVars>>

\* Indexer.setup_index up to create_index; the engine refuses to create an
\* index that exists (ResponseError, raised out of Indexer.__init__)
SetupIndex ==
    /\ pc = "setup"
    /\ calls' = Append(calls, <<"create_index", 0>>)
    /\ indexExists' = TRUE
    /\ pc' = IF indexExists THEN "failed"
             ELSE IF SynonymGroups # <<>> THEN "synonyms" ELSE "ready"
    /\ UNCHANGED <<now, lastIndex, runs, rebuild_index, force,
                   index_exists, time_diff, crawlVars, queue, unfinished,
                   workerVars, errors, tsUnfinished, extractVars, batchVars, schedVars, raceVars>>

\* Indexer.add_synonyms: the groups it issues FT.SYNUPDATE for; the loop body
\* returns, so that is the first group alone
SynUpdateGroups(groups) == IF groups = <<>> THEN <<>> ELSE <<groups[1]>>

\* Indexer.add_synonyms, called by setup_index; a failing FT.SYNUPDATE raises
\* out of Indexer.__init__
AddSynonyms ==
    /\ pc = "synonyms"
    /\ calls' = calls \o [k \in 1..Len(SynUpdateGroups(SynonymGroups)) |->
                              <<"synupdate", SynUpdateGroups(SynonymGroups)[k]>>]
    /\ \E ok \in BOOLEAN : pc' = IF ok THEN "ready" ELSE "failed"
    /\ UNCHANGED <<now, engineVars, runs, rebuild_index, force,
                   index_exists, time_diff, crawlVars, queue, unfinished,
                   workerVars, errors, tsUnfinished, extractVars, batchVars, schedVars, raceVars>>

\* Indexer.debounce: whether it raises DebounceError
DebounceRaises(last_index, t) ==
    IsSome(last_index) /\ t - Get(last_index) > DEBOUNCE_SECONDS

\* Indexer.index up to process.start(): the debounce check unless forced
Index ==
    /\ pc = "ready"
    /\ time_diff' = IF ~force /\ IsSome(lastIndex)
                    THEN Some(now - Get(lastIndex)) ELSE Nothing
    /\ IF ~force /\ DebounceRaises(lastIndex, now)
       THEN /\ pc' = "aborted"
            /\ errors' = errors \cup {<<"debounced", <<>>>>}
            /\ UNCHANGED <<frontier, requested>>
       ELSE /\ pc' = "crawling"
            /\ frontier' = {SiteUrl}
            /\ requested' = {SiteUrl}
            /\ UNCHANGED errors
    /\ UNCHANGED <<now, engineVars, runs, rebuild_index, force,
                   index_exists, calls, scraped, seen_urls, validated, queue,
                   unfinished, workerVars, tsUnfinished, extractVars, batchVars, schedVars, raceVars>>

\* the crawler's scheduling after a response for u was handled
FollowLinks(u) ==
    /\ frontier' = (frontier \ {u}) \cup (Links(u) \ requested)
    /\ requested' = requested \cup Links(u)

\* DocumentationSpiderBase.parse: a ParseError is logged and nothing is
\* yielded; the links are followed in either case
SpiderParse(u, html) ==
    /\ pc = "crawling"
    /\ u \in frontier
    /\ LET r == parse(SiteUrl, SiteValidators, u, html)
       IN  /\ Len(queue) + Len(scraped) + Len(r.docs) <= MaxDocs
           /\ scraped' = scraped \o r.docs
           /\ errors' = IF r.raised THEN errors \cup {<<r.error, u>>} ELSE errors
           /\ validated' = (u :> r.calls) @@ validated
    /\ FollowLinks(u)
    /\ UNCHANGED <<now, engineVars, runs, pc, rebuild_index, force,
                   index_exists, calls, time_diff, seen_urls, queue, unfinished,
                   workerVars, tsUnfinished, extractVars, batchVars, schedVars, raceVars>>

\* a request that yields no response (download error): no callback runs
RequestFails(u) ==
    /\ pc = "crawling"
    /\ u \in frontier
    /\ frontier' = frontier \ {u}
    /\ UNCHANGED <<now, engineVars, runs, pc, rebuild_index, force,
                   index_exists, calls, time_diff, requested, scraped,
                   seen_urls, validated, queue, unfinished, workerVars, errors,
                   tsUnfinished, extractVars, batchVars, schedVars, raceVars>>

\* a key that keeps the URL as it is
SeenKeyUnstripped(url) == url

\* the key of seen_urls for a document: item.url.rstrip("/")
SeenKey(url) == RStripChars(url, {"/"})

\* enqueue_document, the item_scraped handler
enqueue_document ==
    /\ pc = "crawling"
    /\ scraped # <<>>
    /\ LET item == Head(scraped)
       IN  /\ seen_urls' = (SeenKey(item.url) :> item.title) @@ seen_urls
           /\ queue' = Append(queue, item)
           /\ got' = (item :> 0) @@ got
           /\ attempts' = (item :> 0) @@ attempts
           /\ acked' = (item :> 0) @@ acked
    /\ unfinished' = unfinished + 1
    /\ scraped' = Tail(scraped)
    /\ UNCHANGED <<now, engineVars, runs, pc, rebuild_index, force,
                   index_exists, calls, time_diff, frontier, requested,
                   validated, wpc, wdoc, written, hierarchies, errors,
                   tsUnfinished,
                   extractVars, batchVars, schedVars, raceVars>>

\* a handler connected to a signal that fires while the crawl is running
DuringCrawl == TRUE

\* the crawl is over when nothing is scheduled and every item was signalled
CrawlFinished == frontier = {} /\ scraped = <<>>

\* a start_indexing without its check for an empty queue
start_indexing_unchecked ==
    /\ pc = "crawling"
    /\ CrawlFinished
    /\ pc' = "started"
    /\ wpc' = [w \in Workers |-> "get"]
    /\ UNCHANGED <<now, engineVars, runs, rebuild_index, force,
                   index_exists, calls, time_diff, crawlVars, queue, unfinished,
                   wdoc, got, attempts, acked, written, hierarchies, errors, tsUnfinished,
                   extractVars, batchVars, schedVars, raceVars>>

\* start_indexing, the engine_stopped handler, up to the start of the threads
start_indexing ==
    /\ pc = "crawling"
    /\ CrawlFinished
    /\ IF queue = <<>>
       THEN pc' = "done" /\ UNCHANGED wpc
       ELSE pc' = "started" /\ wpc' = [w \in Workers |-> "get"]
    /\ UNCHANGED <<now, engineVars, runs, rebuild_index, force,
                   index_exists, calls, time_diff, crawlVars, queue, unfinished,
                   wdoc, got, attempts, acked, written, hierarchies, errors, tsUnfinished,
                   extractVars, batchVars, schedVars, raceVars>>

\* start_indexing: the write of the last-indexed timestamp
SetLastIndex ==
    /\ pc = "started"
    /\ lastIndex' = Some(now)
    /\ tsUnfinished' = Some(unfinished)
    /\ pc' = "joining"
    /\ UNCHANGED <<now, indexExists, runs, rebuild_index, force,
                   index_exists, calls, time_diff, crawlVars, queue, unfinished,
                   workerVars, errors, extractVars, batchVars, schedVars, raceVars>>

\* a join that returns as soon as the queue holds no document
JoinReturnsWhenEmpty == queue = <<>>

\* Queue.join returns when every put was followed by a task_done
JoinReturns == unfinished = 0

\* start_indexing: docs_to_process.join(), after which index() returns
Join ==
    /\ pc = "joining"
    /\ JoinReturns
    /\ pc' = "done"
    /\ UNCHANGED <<now, engineVars, runs, rebuild_index, force,
                   index_exists, calls, time_diff, crawlVars, queue, unfinished,
                   workerVars, errors, tsUnfinished, extractVars, batchVars, schedVars, raceVars>>

\* index_documents: docs_to_process.get()
WorkerGet(w) ==
    /\ wpc[w] = "get"
    /\ queue # <<>>
    /\ wdoc' = [wdoc EXCEPT ![w] = Some(Head(queue))]
    /\ got' = [got EXCEPT ![Head(queue)] = @ + 1]
    /\ queue' = Tail(queue)
    /\ wpc' = [wpc EXCEPT ![w] = "index"]
    /\ UNCHANGED <<now, engineVars, runs, pc, rebuild_index, force,
                   index_exists, calls, time_diff, crawlVars, unfinished,
                   attempts, acked, written, hierarchies, errors, tsUnfinished, extractVars, batchVars, schedVars, raceVars>>

\* the except clauses of Indexer.index_document
IndexDocumentCatches(e) == e \in {"DataError", "ResponseError"}

\* an except clause for the two redis errors alone
CatchesRedisErrorsOnly(e) == e \in {"DataError", "ResponseError"}

\* an except clause that catches none of the errors of a write
CatchesNothing(e) == FALSE

\* the except clause of index_documents
IndexDocumentsCatches(e) == e \in {"DataError", "ResponseError", "Exception"}

\* index_documents: self.index_document(doc), which builds the hierarchy
\* (document_to_dict) and calls hset, inside try/except Exception,
\* then docs_to_process.task_done(); an exception that no clause catches ends
\* the thread
WorkerIndexDocument(w) ==
    /\ wpc[w] = "index"
    /\ \E outcome \in WriteOutcomes :
         LET doc == Get(wdoc[w])
             caught == IndexDocumentCatches(outcome) \/ IndexDocumentsCatches(outcome)
             survives == outcome = "ok" \/ caught
         IN  /\ attempts' = [attempts EXCEPT ![doc] = @ + 1]
             /\ written' = IF outcome = "ok" THEN written \cup {doc} ELSE written
             /\ hierarchies' = (doc :> build_hierarchy(SiteUrl, seen_urls, doc.url))
                                  @@ hierarchies
             /\ errors' = IF outcome # "ok" /\ caught
                          THEN errors \cup {<<outcome, doc.doc_id>>} ELSE errors
             /\ acked' = IF survives THEN [acked EXCEPT ![doc] = @ + 1] ELSE acked
             /\ unfinished' = IF survives THEN unfinished - 1 ELSE unfinished
             /\ wdoc' = IF survives THEN [wdoc EXCEPT ![w] = Nothing] ELSE wdoc
             /\ wpc' = [wpc EXCEPT ![w] = IF survives THEN "get" ELSE "dead"]
    /\ UNCHANGED <<now, engineVars, runs, pc, rebuild_index, force,
                   index_exists, calls, time_diff, crawlVars, queue, got,
                   tsUnfinished, extractVars, batchVars, schedVars, raceVars>>

\* the process of the run ends (index() returned, or __init__ raised); its
\* daemon threads and its memory go with it
Exit ==
    /\ pc \in {"done", "aborted", "failed"}
    /\ pc' = "idle"
    /\ rebuild_index' = FALSE
    /\ force' = FALSE
    /\ index_exists' = FALSE
    /\ calls' = <<>>
    /\ time_diff' = Nothing
    /\ frontier' = {}
    /\ requested' = {}
    /\ scraped' = <<>>
    /\ seen_urls' = EmptyMap
    /\ validated' = EmptyMap
    /\ queue' = <<>>
    /\ unfinished' = 0
    /\ wpc' = [w \in Workers |-> "off"]
    /\ wdoc' = [w \in Workers |-> Nothing]
    /\ errors' = {}
    /\ got' = EmptyMap
    /\ attempts' = EmptyMap
    /\ acked' = EmptyMap
    /\ written' = {}
    /\ hierarchies' = EmptyMap
    /\ tsUnfinished' = Nothing
    /\ UNCHANGED <<now, engineVars, runs, extractVars, batchVars, schedVars, raceVars>>

Next ==
    \/ \E d \in TickSteps : Tick(d)
    \/ \E rb \in BOOLEAN, f \in BOOLEAN : StartRun(rb, f)
    \/ SearchIndexExists
    \/ DropIndex
    \/ SetupIndex
    \/ AddSynonyms
    \/ Index
    \/ \E u \in SiteUrls, html \in CrawledHtml : SpiderParse(u, html)
    \/ \E u \in SiteUrls : RequestFails(u)
    \/ enqueue_document
    \/ start_indexing
    \/ SetLastIndex
    \/ Join
    \/ \E w \in Workers : WorkerGet(w) \/ WorkerIndexDocument(w)
    \/ Exit

Spec == Init /\ [][Next]_vars

\* the step of WorkerIndexDocument(w) as the thread's position shows it:
\* self.index_document(doc) returns or raises, and the thread goes on to its
\* next get() or ends
WorkerReturns(w) ==
    /\ wpc[w] = "index"
    /\ wpc' \in {[wpc EXCEPT ![w] = "get"], [wpc EXCEPT ![w] = "dead"]}

\* The scheduling of one run: the main thread goes on from index() to the
\* crawl, the crawler handles every response that arrives (a finite crawl),
\* signals every item and then engine_stopped, and every thread that can take
\* a step eventually takes one.
Fairness ==
    /\ WF_vars(Index)
    /\ WF_vars(\E u \in SiteUrls, html \in CrawledHtml : SpiderParse(u, html))
    /\ WF_vars(enqueue_document)
    /\ WF_vars(start_indexing)
    /\ WF_vars(SetLastIndex)
    /\ WF_vars(Join)
    /\ \A w \in Workers : WF_vars(WorkerGet(w)) /\ WF_wpc(WorkerReturns(w))

\* one process that has just been started for Indexer(site, rb).index(f):
\* the engine may hold the index and the timestamp of an earlier run
InitLive ==
    /\ now \in {0} \cup TickSteps
    /\ indexExists \in BOOLEAN
    /\ lastIndex \in {Nothing, Some(0)}
    /\ runs = 1
    /\ pc = "init"
    /\ rebuild_index \in BOOLEAN
    /\ force \in BOOLEAN
    /\ FreshRun
    /\ NoExtraction
    /\ NoBatch
    /\ NoScheduler
    /\ NoRace

\* the steps of that one process
NextLive ==
    \/ SearchIndexExists
    \/ DropIndex
    \/ SetupIndex
    \/ AddSynonyms
    \/ Index
    \/ \E u \in SiteUrls, html \in CrawledHtml : SpiderParse(u, html)
    \/ \E u \in SiteUrls : RequestFails(u)
    \/ enqueue_document
    \/ start_indexing
    \/ SetLastIndex
    \/ Join
    \/ \E w \in Workers : WorkerGet(w) \/ WorkerIndexDocument(w)
    \/ Exit

SpecLive == InitLive /\ [][NextLive]_vars /\ Fairness

(***************************************************************************)
(* The extraction specification: DocumentParser applied to one page drawn  *)
(* from a bounded set of pages.                                            *)
(***************************************************************************)
\* what soup.title.string may be
TitleStrings ==
    { <<"t">>, <<"t", "|", "s">>, <<" ", "t", "\n">>, <<"t", ":", "0">>,
      <<"|", "s">>, <<" ", "|", "s">>, <<" ">> }

TitleOptions == {Nothing, Some(Nothing)} \cup {Some(Some(s)) : s \in TitleStrings}

\* the texts of headings and of their anchors
HeadingTexts == { <<"h">>, <<"0">>, <<"h", ":", "0">>, <<":", "1">> }

Headings ==
    {Heading(Some(s), Nothing) : s \in HeadingTexts}
        \cup {Heading(Nothing, Some(s)) : s \in HeadingTexts}
        \cup {Heading(Nothing, Nothing)}

RECURSIVE SeqsUpTo(_, _)
SeqsUpTo(S, n) ==
    IF n = 0 THEN {<<>>}
    ELSE LET shorter == SeqsUpTo(S, n - 1)
         IN  shorter \cup {Append(q, x) : q \in shorter, x \in S}

ExtractValidators ==
    { <<>>, SiteValidators, << {<<TYPE_SECTION, 0>>}, {<<TYPE_PAGE, 0>>} >> }

ExtractInputs ==
    [url : {SiteUrl, SiteUrl \o <<"a", "/">>},
     html : {Html(title, h2s) : title \in TitleOptions,
                                h2s \in SeqsUpTo(Headings, MaxH2)},
     validators : ExtractValidators]

InitExtract ==
    /\ now = 0
    /\ indexExists = FALSE
    /\ lastIndex = Nothing
    /\ runs = 0
    /\ pc = "idle"
    /\ rebuild_index = FALSE
    /\ force = FALSE
    /\ FreshRun
    /\ expc = "input"
    /\ input \in ExtractInputs
    /\ output = Nothing
    /\ NoBatch
    /\ NoScheduler
    /\ NoRace

pipelineVars ==
    <<now, indexExists, lastIndex, runs, pc, rebuild_index, force,
      index_exists, calls, time_diff, frontier, requested, scraped, seen_urls,
      validated, queue, unfinished, wpc, wdoc, errors, got, attempts, acked, written, hierarchies,
      tsUnfinished>>

\* a call of DocumentParser.prepare_document(url, html)
PrepareDocument ==
    /\ expc = "input"
    /\ output' = prepare_document(SiteUrl, input.url, input.html)
    /\ expc' = "prepared"
    /\ UNCHANGED <<input, pipelineVars, batchVars, schedVars, raceVars>>

\* a call of DocumentParser.parse(url, html)
Parse ==
    /\ expc = "input"
    /\ output' = parse(SiteUrl, input.validators, input.url, input.html)
    /\ expc' = "parsed"
    /\ UNCHANGED <<input, pipelineVars, batchVars, schedVars, raceVars>>

NextExtract == PrepareDocument \/ Parse

SpecExtract == InitExtract /\ [][NextExtract]_vars

(***************************************************************************)
(* The hierarchy specification: Indexer.build_hierarchy applied to one     *)
(* document URL and one seen_urls map drawn from bounded sets.             *)
(***************************************************************************)
Segments == { <<"a">>, <<"b">> }

\* the URL of the page at path[1..i] below the site, without trailing slash
CumulativeUrl(path, i) == JoinWith(<<RStripChars(SiteUrl, {"/"})>> \o SubSeq(path, 1, i), <<"/">>)

\* what seen_urls may hold for the page i levels below the site: no entry,
\* an empty title (a page whose <title> is blank), a title
SeenChoices == {"absent", "empty", "title"}

RECURSIVE SeenOf(_, _, _)
SeenOf(path, choice, i) ==
    LET rest == IF i = 0 THEN EmptyMap ELSE SeenOf(path, choice, i - 1)
    IN  IF choice[i] = "absent" THEN rest
        ELSE (CumulativeUrl(path, i) :>
                 (IF choice[i] = "empty" THEN <<>> ELSE <<"t", Digit(i)>>)) @@ rest

\* doc.url as the crawler reports it: with or without a trailing slash
HierarchyInputs ==
    UNION { { [path |-> path,
               url |-> CumulativeUrl(path, Len(path))
                          \o (IF slash THEN <<"/">> ELSE <<>>),
               seen |-> SeenOf(path, choice, Len(path))] :
                slash \in BOOLEAN, choice \in [0..Len(path) -> SeenChoices] } :
            path \in SeqsUpTo(Segments, MaxSegments) }

InitHierarchy ==
    /\ now = 0
    /\ indexExists = FALSE
    /\ lastIndex = Nothing
    /\ runs = 0
    /\ pc = "idle"
    /\ rebuild_index = FALSE
    /\ force = FALSE
    /\ FreshRun
    /\ expc = "input"
    /\ input \in HierarchyInputs
    /\ output = Nothing
    /\ NoBatch
    /\ NoScheduler
    /\ NoRace

\* a call of Indexer.build_hierarchy(doc)
BuildHierarchy ==
    /\ expc = "input"
    /\ output' = build_hierarchy(SiteUrl, input.seen, input.url)
    /\ expc' = "hierarchy"
    /\ UNCHANGED <<input, pipelineVars, batchVars, schedVars, raceVars>>

NextHierarchy == BuildHierarchy

SpecHierarchy == InitHierarchy /\ [][NextHierarchy]_vars

(***************************************************************************)
(* The section specification: prepare_document for a page of a site whose  *)
(* configured URL ends with a slash or does not.                           *)
(***************************************************************************)
\* site.url as configured: without and with a trailing slash
SiteRoots == {RStripChars(SiteUrl, {"/"}), SiteUrl}

\* pages with a title and up to MaxH2 headings
SectionHtml ==
    {Html(Some(Some(<<"t">>)), h2s) :
        h2s \in SeqsUpTo({Heading(Some(<<"h">>), Nothing)}, MaxH2)}

\* page.url of an input
SectionUrl(in) ==
    CumulativeUrl(in.path, Len(in.path)) \o (IF in.slash THEN <<"/">> ELSE <<>>)

\* the page at path below the site, its URL with or without a trailing slash:
\* the pages whose URL starts with the configured root
SectionInputs ==
    { in \in [root : SiteRoots,
              path : SeqsUpTo(Segments, MaxSegments),
              slash : BOOLEAN,
              html : SectionHtml] : StartsWith(SectionUrl(in), in.root) }

InitSection ==
    /\ now = 0
    /\ indexExists = FALSE
    /\ lastIndex = Nothing
    /\ runs = 0
    /\ pc = "idle"
    /\ rebuild_index = FALSE
    /\ force = FALSE
    /\ FreshRun
    /\ expc = "input"
    /\ input \in SectionInputs
    /\ output = Nothing
    /\ NoBatch
    /\ NoScheduler
    /\ NoRace

\* DocumentParser(root_url, validators).prepare_document(url, html)
PrepareUnderRoot ==
    /\ expc = "input"
    /\ output' = prepare_document(input.root, SectionUrl(input), input.html)
    /\ expc' = "section"
    /\ UNCHANGED <<input, pipelineVars, batchVars, schedVars, raceVars>>

NextSection == PrepareUnderRoot

SpecSection == InitSection /\ [][NextSection]_vars

(***************************************************************************)
(* The section-body specification: the two extract_parts applied to the    *)
(* children of one content element.  A node has a name ("" for a           *)
(* NavigableString, which has no name attribute) and its text; an H2 has   *)
(* also string (tag.string), a (the text of its first anchor, Nothing when *)
(* tag.find("a") is None) and after (its children that follow the anchor). *)
(***************************************************************************)
TextNode(text) ==
    [name |-> "", text |-> text, string |-> Nothing, a |-> Nothing, after |-> <<>>]

Element(text) ==
    [name |-> "p", text |-> text, string |-> Nothing, a |-> Nothing, after |-> <<>>]

H2Node(string, a, after) ==
    [name |-> "h2", text |-> <<"h">>, string |-> string, a |-> a, after |-> after]

\* the anchor of a heading as a child of the heading
AnchorNode(text) ==
    [name |-> "a", text |-> text, string |-> Some(text), a |-> Nothing, after |-> <<>>]

\* the children of content: text, two elements, a heading with its title as
\* its string, a heading of several children with no anchor, and headings
\* whose title is in an anchor that an element or a text follows
ContentNodes ==
    { TextNode(<<"s">>), Element(<<"x">>), Element(<<"y">>),
      H2Node(Some(<<"h">>), Nothing, <<>>),
      H2Node(Nothing, Nothing, <<>>),
      H2Node(Nothing, Some(<<"h">>), <<Element(<<"z">>)>>),
      H2Node(Nothing, Some(<<"h">>), <<TextNode(<<"s">>)>>) }

BodyInputs == SeqsUpTo(ContentNodes, MaxNodes)

\* next_element(elem) for the sibling numbered i of siblings: the number of
\* the next sibling that has a name, 0 for None
RECURSIVE next_element(_, _)
next_element(siblings, i) ==
    IF i = 0 \/ i >= Len(siblings) THEN 0
    ELSE IF siblings[i + 1].name # "" THEN i + 1
    ELSE next_element(siblings, i + 1)

\* the loop "while elem and elem.name != 'h2'": the elements appended to page
RECURSIVE PageFrom(_, _)
PageFrom(siblings, j) ==
    IF j = 0 \/ siblings[j].name = "h2" THEN <<>>
    ELSE <<siblings[j].text>> \o PageFrom(siblings, next_element(siblings, j))

\* prepare_text(BeautifulSoup('\n'.join(page)).get_text())
PartBody(page) == prepare_text(JoinWith(page, <<"\n">>))

\* content.find_all('h2'): the places of the headings among the children
RECURSIVE H2Places(_, _)
H2Places(content, i) ==
    IF i > Len(content) THEN <<>>
    ELSE (IF content[i].name = "h2" THEN <<i>> ELSE <<>>) \o H2Places(content, i + 1)

\* DocumentParser.extract_parts of sitesearch: the body of each section; the
\* walk starts at origin, the heading
sitesearch_bodies(content) ==
    LET h2s == H2Places(content, 1)
    IN  [k \in 1..Len(h2s) |->
            PartBody(PageFrom(content, next_element(content, h2s[k])))]

\* extract_parts of docsearch for the heading at place: the walk starts at
\* tag, which is the anchor (or None) when tag.string is None
docsearch_body(content, place) ==
    LET h == content[place]
        children == <<AnchorNode(IF IsSome(h.a) THEN Get(h.a) ELSE <<>>)>> \o h.after
    IN  IF IsSome(h.string)
        THEN PartBody(PageFrom(content, next_element(content, place)))
        ELSE IF IsSome(h.a)
             THEN PartBody(PageFrom(children, next_element(children, 1)))
             ELSE PartBody(PageFrom(content, next_element(content, 0)))

\* extract_parts of docsearch: the body of each section
docsearch_bodies(content) ==
    LET h2s == H2Places(content, 1)
    IN  [k \in 1..Len(h2s) |-> docsearch_body(content, h2s[k])]

InitBody ==
    /\ now = 0
    /\ indexExists = FALSE
    /\ lastIndex = Nothing
    /\ runs = 0
    /\ pc = "idle"
    /\ rebuild_index = FALSE
    /\ force = FALSE
    /\ FreshRun
    /\ expc = "input"
    /\ input \in BodyInputs
    /\ output = [sitesearch |-> Nothing, docsearch |-> Nothing]
    /\ NoBatch
    /\ NoScheduler
    /\ NoRace

\* sitesearch's extract_parts on the page
SitesearchExtractParts ==
    /\ expc \in {"input", "body"}
    /\ output.sitesearch = Nothing
    /\ output' = [output EXCEPT !.sitesearch = Some(sitesearch_bodies(input))]
    /\ expc' = "body"
    /\ UNCHANGED <<input, pipelineVars, batchVars, schedVars, raceVars>>

\* docsearch's extract_parts on the page
DocsearchExtractParts ==
    /\ expc \in {"input", "body"}
    /\ output.docsearch = Nothing
    /\ output' = [output EXCEPT !.docsearch = Some(docsearch_bodies(input))]
    /\ expc' = "body"
    /\ UNCHANGED <<input, pipelineVars, batchVars, schedVars, raceVars>>

NextBody == SitesearchExtractParts \/ DocsearchExtractParts

SpecBody == InitBody /\ [][NextBody]_vars

(***************************************************************************)
(* The batch specification: docsearch's Indexer.prepare_files              *)
(* (src/docsearch/indexer.py) over a bounded list of files.                *)
(*                                                                         *)
(* A file is given by what prepare_document looks at: whether it has a     *)
(* title, a canonical link and breadcrumbs, its number of H2, and the      *)
(* numbers (from 1) of its documents that a validator rejects.             *)
(***************************************************************************)
FileContents ==
    { [title |-> FALSE, link |-> TRUE, crumbs |-> TRUE, h2s |-> 0, rejected |-> {}],
      [title |-> TRUE, link |-> FALSE, crumbs |-> TRUE, h2s |-> 0, rejected |-> {}],
      [title |-> TRUE, link |-> TRUE, crumbs |-> FALSE, h2s |-> 0, rejected |-> {}],
      [title |-> TRUE, link |-> TRUE, crumbs |-> TRUE, h2s |-> 1, rejected |-> {}],
      [title |-> TRUE, link |-> TRUE, crumbs |-> TRUE, h2s |-> 1, rejected |-> {2}] }

\* docsearch's prepare_document on the content of the file numbered i: the
\* page document and one document per H2, or a ParseError
docsearch_prepare_document(i, content) ==
    IF ~content.title
    THEN [raised |-> TRUE, error |-> "Failed -- missing title", docs |-> <<>>]
    ELSE IF ~content.link
    THEN [raised |-> TRUE, error |-> "Failed -- missing link", docs |-> <<>>]
    ELSE IF ~content.crumbs
    THEN [raised |-> TRUE, error |-> "Failed -- missing breadcrumbs", docs |-> <<>>]
    ELSE [raised |-> FALSE, error |-> "",
          docs |-> [k \in 1..(1 + content.h2s) |-> [file |-> i, position |-> k]]]

\* prepare_file(file), file being the i-th of fs
prepare_file(fs, i) == docsearch_prepare_document(i, fs[i])

\* self.validate(doc) raises ParseError for some doc of docs_for_file
docsearch_validate_raises(content, docs_for_file) ==
    \E k \in DOMAIN docs_for_file : k \in content.rejected

BatchInputs == SeqsUpTo(FileContents, NumFiles) \ {<<>>}

InitBatch ==
    /\ now = 0
    /\ indexExists = FALSE
    /\ lastIndex = Nothing
    /\ runs = 0
    /\ pc = "idle"
    /\ rebuild_index = FALSE
    /\ force = FALSE
    /\ FreshRun
    /\ NoExtraction
    /\ bpc = "submit"
    /\ files \in BatchInputs
    /\ file = Nothing
    /\ futures = {}
    /\ all_docs = <<>>
    /\ file_errors = <<>>
    /\ custom_validators \in BOOLEAN
    /\ NoScheduler
    /\ NoRace

\* prepare_files: the loop that submits one prepare_file per file; it leaves
\* the last file in the variable file
SubmitFiles ==
    /\ bpc = "submit"
    /\ file' = Some(Len(files))
    /\ futures' = DOMAIN files
    /\ bpc' = "collect"
    /\ UNCHANGED <<files, all_docs, file_errors, custom_validators,
                   pipelineVars, extractVars, schedVars, raceVars>>

\* prepare_files: one round of the loop over as_completed(futures), for the
\* future of the file numbered i; the futures complete in any order.
\* Indexer.__init__ sets self.validators only when it was given none, so
\* with validators given self.validate raises AttributeError.
CollectFuture(i) ==
    /\ bpc = "collect"
    /\ i \in futures
    /\ futures' = futures \ {i}
    /\ LET r == prepare_file(files, i)
       IN  IF r.raised
           THEN /\ file_errors' = Append(file_errors, <<r.error, Get(file)>>)
                /\ UNCHANGED <<all_docs, bpc>>
           ELSE IF r.docs = <<>>
           THEN UNCHANGED <<file_errors, all_docs, bpc>>
           ELSE IF custom_validators
           THEN /\ bpc' = "AttributeError"
                /\ UNCHANGED <<file_errors, all_docs>>
           ELSE IF docsearch_validate_raises(files[i], r.docs)
           THEN /\ file_errors' = Append(file_errors, <<"validation", Get(file)>>)
                /\ UNCHANGED <<all_docs, bpc>>
           ELSE /\ all_docs' = all_docs \o r.docs
                /\ UNCHANGED <<file_errors, bpc>>
    /\ UNCHANGED <<files, file, custom_validators, pipelineVars, extractVars,
                   schedVars, raceVars>>

\* prepare_files: return docs, errors
ReturnDocs ==
    /\ bpc = "collect"
    /\ futures = {}
    /\ bpc' = "returned"
    /\ UNCHANGED <<files, file, futures, all_docs, file_errors,
                   custom_validators, pipelineVars, extractVars, schedVars, raceVars>>

NextBatch ==
    \/ SubmitFiles
    \/ \E i \in 1..NumFiles : CollectFuture(i)
    \/ ReturnDocs

SpecBatch == InitBatch /\ [][NextBatch]_vars

(***************************************************************************)
(* The scheduling specification: the scheduler command                     *)
(* (src/sitesearch/commands/scheduler.py), the task queue's workers and    *)
(* the task tasks.index (src/sitesearch/tasks.py).                         *)
(***************************************************************************)
Sites == 1..NumSites

\* the parameters of tasks.index(site, config=None, force=False)
IndexParams == {"site", "config", "force"}

\* the keyword arguments of the job the scheduler enqueues at startup
StartupKwargs == [rebuild_index |-> TRUE, force |-> TRUE]

\* the keyword arguments of the job the scheduler registers with cron
CronKwargs == [rebuild_index |-> FALSE, force |-> FALSE]

\* keyword arguments that tasks.index declares
DeclaredKwargs == {[force |-> f] : f \in BOOLEAN}

\* calling a Python function with a keyword it does not declare raises
\* TypeError
CallRaisesTypeError(params, kwargs) == ~(DOMAIN kwargs \subseteq params)

\* the value tasks.index's parameter force is bound to
BoundForce(kwargs) == IF "force" \in DOMAIN kwargs THEN kwargs.force ELSE FALSE

Job(site, kind, kwargs) ==
    [site |-> site, kind |-> kind, kwargs |-> kwargs, status |-> "queued",
     error |-> "", indexer |-> Nothing, last_index |-> Nothing, at |-> Nothing,
     debounced |-> FALSE, result |-> Nothing]

InitSched ==
    /\ now = 0
    /\ indexExists = FALSE
    /\ lastIndex = Nothing
    /\ runs = 0
    /\ pc = "idle"
    /\ rebuild_index = FALSE
    /\ force = FALSE
    /\ FreshRun
    /\ NoExtraction
    /\ NoBatch
    /\ spc = "enqueue"
    /\ site_i = 1
    /\ jobs = <<>>
    /\ job_ids = {}
    /\ cron = {}
    /\ expiry = Nothing
    /\ NoRace

schedRest == <<indexExists, runs, pc, rebuild_index, force, index_exists,
               calls, time_diff, crawlVars, queue, unfinished, workerVars,
               errors, tsUnfinished, extractVars, batchVars, raceVars>>

\* scheduler: queue.enqueue(tasks.index, args=[site], kwargs={...}); the job
\* is on the queue from here on
SchedulerEnqueue ==
    /\ spc = "enqueue"
    /\ jobs' = Append(jobs, Job(site_i, "startup", StartupKwargs))
    /\ spc' = "sadd"
    /\ UNCHANGED <<now, lastIndex, site_i, job_ids, cron, expiry, schedRest>>

\* scheduler: redis_client.sadd(keys.startup_indexing_job_ids(), job.id)
SchedulerSadd ==
    /\ spc = "sadd"
    /\ job_ids' = job_ids \cup {Len(jobs)}
    /\ spc' = "cron"
    /\ UNCHANGED <<now, lastIndex, site_i, jobs, cron, expiry, schedRest>>

\* scheduler: scheduler.cron("*/60 * * * *", func=tasks.index, ...), then the
\* next site, or after the last site the expire
SchedulerCron ==
    /\ spc = "cron"
    /\ cron' = cron \cup {[site |-> site_i, kwargs |-> CronKwargs]}
    /\ IF site_i < NumSites
       THEN site_i' = site_i + 1 /\ spc' = "enqueue"
       ELSE site_i' = site_i /\ spc' = "expire"
    /\ UNCHANGED <<now, lastIndex, jobs, job_ids, expiry, schedRest>>

\* scheduler: redis_client.expire(..., tasks.INDEXING_TIMEOUT), then
\* scheduler.run()
SchedulerExpire ==
    /\ spc = "expire"
    /\ expiry' = IF job_ids # {} THEN Some(now + INDEXING_TIMEOUT) ELSE Nothing
    /\ spc' = "run"
    /\ UNCHANGED <<now, lastIndex, site_i, jobs, job_ids, cron, schedRest>>

\* scheduler.run(): a cron entry is due and its job is put on the queue
CronFires(entry) ==
    /\ spc = "run"
    /\ entry \in cron
    /\ Len(jobs) < MaxJobs
    /\ jobs' = Append(jobs, Job(entry.site, "cron", entry.kwargs))
    /\ UNCHANGED <<now, lastIndex, spc, site_i, job_ids, cron, expiry, schedRest>>

\* some client of the queue enqueues tasks.index with keyword arguments the
\* task declares
EnqueueIndex(site, kwargs) ==
    /\ spc = "run"
    /\ Len(jobs) < MaxJobs
    /\ jobs' = Append(jobs, Job(site, "call", kwargs))
    /\ UNCHANGED <<now, lastIndex, spc, site_i, job_ids, cron, expiry, schedRest>>

\* time passes while the scheduler runs
SchedTick(d) ==
    /\ spc = "run"
    /\ now + d <= MaxTime
    /\ now' = now + d
    /\ UNCHANGED <<lastIndex, schedVars, schedRest>>

\* the jobs the workers are executing
Executing == {k \in DOMAIN jobs : jobs[k].status \in {"started", "indexed"}}

\* a free worker of the queue takes the oldest job and calls
\* tasks.index(*args, **kwargs)
JobStart(j) ==
    /\ j \in DOMAIN jobs
    /\ jobs[j].status = "queued"
    /\ \A k \in 1..(j - 1) : jobs[k].status # "queued"
    /\ Cardinality(Executing) < NumRqWorkers
    /\ jobs' = [jobs EXCEPT ![j] =
                  IF CallRaisesTypeError(IndexParams, @.kwargs)
                  THEN [@ EXCEPT !.status = "failed", !.error = "TypeError"]
                  ELSE [@ EXCEPT !.status = "started"]]
    /\ UNCHANGED <<now, lastIndex, spc, site_i, job_ids, cron, expiry, schedRest>>

\* an except clause that catches nothing
IndexCatchesNothing(e) == FALSE

\* the except clause of Indexer.index around self.debounce()
IndexCatches(e) == e = "DebounceError"

\* tasks.index: Indexer(site, config), which may raise (the engine refuses a
\* command, a synonym update fails), then indexer.index(force): the debounce
\* check unless forced, then the crawl and the drain, which writes the
\* timestamp when the crawl enqueued a document.  tasks.index passes no
\* rebuild_index to Indexer.
JobIndex(j) ==
    /\ j \in DOMAIN jobs
    /\ jobs[j].status = "started"
    /\ \E init_ok \in BOOLEAN, wrote \in BOOLEAN :
         LET f == BoundForce(jobs[j].kwargs)
             reached == [jobs[j] EXCEPT
                           !.indexer = Some([rebuild_index |-> FALSE, force |-> f]),
                           !.last_index = IF f THEN Nothing ELSE Some(lastIndex),
                           !.at = IF f THEN Nothing ELSE Some(now)]
         IN  IF ~init_ok
             THEN /\ jobs' = [jobs EXCEPT ![j] = [@ EXCEPT !.status = "failed",
                                                           !.error = "IndexerError"]]
                  /\ UNCHANGED lastIndex
             ELSE IF ~f /\ DebounceRaises(lastIndex, now)
             THEN /\ jobs' = [jobs EXCEPT ![j] =
                                IF IndexCatches("DebounceError")
                                THEN [reached EXCEPT !.status = "indexed",
                                                     !.debounced = TRUE]
                                ELSE [reached EXCEPT !.status = "failed",
                                                     !.error = "DebounceError"]]
                  /\ UNCHANGED lastIndex
             ELSE /\ jobs' = [jobs EXCEPT ![j] = [reached EXCEPT !.status = "indexed"]]
                  /\ lastIndex' = IF wrote THEN Some(now) ELSE lastIndex
    /\ UNCHANGED <<now, spc, site_i, job_ids, cron, expiry, schedRest>>

\* tasks.index: get_current_job(), srem of the job's id, return True
JobFinish(j) ==
    /\ j \in DOMAIN jobs
    /\ jobs[j].status = "indexed"
    /\ job_ids' = job_ids \ {j}
    /\ jobs' = [jobs EXCEPT ![j] = [@ EXCEPT !.status = "finished",
                                             !.result = Some(TRUE)]]
    /\ UNCHANGED <<now, lastIndex, spc, site_i, cron, expiry, schedRest>>

NextSched ==
    \/ SchedulerEnqueue
    \/ SchedulerSadd
    \/ SchedulerCron
    \/ SchedulerExpire
    \/ \E entry \in cron : CronFires(entry)
    \/ \E site \in Sites, kwargs \in DeclaredKwargs : EnqueueIndex(site, kwargs)
    \/ \E d \in TickSteps : SchedTick(d)
    \/ \E j \in 1..MaxJobs : JobStart(j) \/ JobIndex(j) \/ JobFinish(j)

SpecSched == InitSched /\ [][NextSched]_vars

(***************************************************************************)
(* The query specification of docsearch: parse                             *)
(* (src/docsearch/query_parser.py) applied to one raw query drawn from a   *)
(* bounded set, for a caller that wants the page (offset, limit).          *)
(***************************************************************************)
UNSAFE_CHARS == <<"[", "]", "@", "+", "-">>

\* docsearch.query_parser.parse(query): the Query it returns, given by the
\* query string and the arguments of summarize, highlight and paging.  The
\* result of query.replace(UNSAFE_CHARS, ' ') is not assigned.
query_parser_parse(query) ==
    LET stripped == StripChars(query, Whitespace)
        replaced == Replace(stripped, UNSAFE_CHARS, <<" ">>)
    IN  [query_string |-> stripped,
         summarize |-> [fields |-> <<"body">>, context_len |-> Some(10),
                        num_frags |-> Nothing],
         highlight |-> [fields |-> <<"title", "body", "section_title">>],
         paging |-> <<0, 15>>]

QueryChars == {"p", "y", "-", "*", " ", "[", "]"}

DocQueryInputs ==
    [query : SeqsUpTo(QueryChars, MaxQueryLen), offset : {0, 10}, limit : {10, 15}]

InitDocQuery ==
    /\ now = 0
    /\ indexExists = FALSE
    /\ lastIndex = Nothing
    /\ runs = 0
    /\ pc = "idle"
    /\ rebuild_index = FALSE
    /\ force = FALSE
    /\ FreshRun
    /\ NoBatch
    /\ NoScheduler
    /\ NoRace
    /\ expc = "input"
    /\ input \in DocQueryInputs
    /\ output = Nothing

\* a call of docsearch.query_parser.parse(query); the function takes no
\* offset and no limit
ParseQuery ==
    /\ expc = "input"
    /\ output' = query_parser_parse(input.query)
    /\ expc' = "plan"
    /\ UNCHANGED <<input, pipelineVars, batchVars, schedVars, raceVars>>

NextDocQuery == ParseQuery

SpecDocQuery == InitDocQuery /\ [][NextDocQuery]_vars

(***************************************************************************)
(* The query builder of sitesearch, parse(index, query, section, start,    *)
(* num, site).  Its module (sitesearch.query_parser) is not among the      *)
(* sources, only its tests are (src/tests/test_query_parser.py); it is     *)
(* modelled from section 4.5 of the specification and from these tests.    *)
(***************************************************************************)
\* SynonymGroup.synonyms of the configured groups
SynonymsOf(g) ==
    IF g = 1 THEN { <<"i">> } ELSE IF g = 2 THEN { <<"j">> } ELSE { <<"k">> }

\* all synonyms of the first group alone
first_group_synonyms(groups) == IF groups = <<>> THEN {} ELSE SynonymsOf(groups[1])

\* SiteConfiguration.all_synonyms
all_synonyms(groups) == UNION {SynonymsOf(groups[g]) : g \in DOMAIN groups}

\* site.literal_terms
LiteralTerms == << <<"a", "-", "a">>, <<"b", "-", "b">> >>

\* str.lower() on the letters of the model
Lower(s) ==
    [k \in DOMAIN s |-> IF s[k] = "I" THEN "i" ELSE IF s[k] = "J" THEN "j" ELSE s[k]]

\* whether sub occurs in s
RECURSIVE Contains(_, _)
Contains(s, sub) ==
    IF Len(s) < Len(sub) THEN FALSE
    ELSE StartsWith(s, sub) \/ Contains(Tail(s), sub)

\* an escaping of the first literal term alone
RECURSIVE escape_first_literal_term(_, _)
escape_first_literal_term(terms, query) ==
    IF terms = <<>> THEN query
    ELSE IF Contains(query, terms[1])
         THEN Replace(query, terms[1], Replace(terms[1], <<"-">>, <<"\\", "-">>))
         ELSE query

\* step 2: every literal term that occurs in the query gets its hyphens
\* escaped
RECURSIVE escape_literal_terms(_, _)
escape_literal_terms(terms, query) ==
    IF terms = <<>> THEN query
    ELSE escape_literal_terms(
             Tail(terms),
             IF Contains(query, terms[1])
             THEN Replace(query, terms[1], Replace(terms[1], <<"-">>, <<"\\", "-">>))
             ELSE query)

\* a token without its trailing wildcard marker
WithoutWildcard(token) ==
    IF token # <<>> /\ token[Len(token)] = "*"
    THEN SubSeq(token, 1, Len(token) - 1) ELSE token

\* step 3 on one token: a token that is not escaped and matches a synonym
\* term loses its wildcard
exact_synonym_token(synonyms, token) ==
    IF ~Contains(token, <<"\\", "-">>) /\ Lower(WithoutWildcard(token)) \in synonyms
    THEN WithoutWildcard(token) ELSE token

\* the attribute of the section-scoped branch
WeightAttribute ==
    <<"{", "$", "w", "e", "i", "g", "h", "t", ":", " ", "1", "0", "}">>

\* a wrapping that leaves out the unscoped branch
boost_section_only(section, q) ==
    IF IsSome(section)
    THEN <<"(", "(", "@", "s", ":">> \o Get(section)
            \o <<")", " ", "=", ">", " ">> \o WeightAttribute \o <<" ">>
            \o q \o <<")">>
    ELSE q

\* step 4: ((@s:S) => {$weight: 10} Q) | Q
boost_section(section, q) ==
    IF IsSome(section)
    THEN <<"(", "(", "@", "s", ":">> \o Get(section)
            \o <<")", " ", "=", ">", " ">> \o WeightAttribute \o <<" ">>
            \o q \o <<")", " ", "|", " ">> \o q
    ELSE q

\* steps 1 to 4: the query string of the plan
query_string(query, section, site) ==
    LET trimmed == StripChars(query, Whitespace)
        undashed == Replace(trimmed, <<"-", "*">>, <<"*">>)
        escaped == escape_literal_terms(site.literal_terms, undashed)
        tokens == Split(escaped, " ")
        exact == [k \in DOMAIN tokens |->
                     exact_synonym_token(all_synonyms(site.synonym_groups), tokens[k])]
    IN  boost_section(section, JoinWith(exact, <<" ">>))

\* step 5: the directives, after the index and the query string
Directives(offset, limit) ==
    <<"SUMMARIZE", "FIELDS", "1", "body", "FRAGS", "1", "LEN", "10",
      "HIGHLIGHT", "FIELDS", "3", "title", "body", "section_title",
      "LIMIT", Str(offset), Str(limit)>>

\* parse(index, query, section, start, num, site)
buildQuery(index, query, section, offset, limit, site) ==
    <<index, query_string(query, section, site)>> \o Directives(offset, limit)

\* the configured site as the query builder uses it
QuerySite == [literal_terms |-> LiteralTerms, synonym_groups |-> SynonymGroups]

\* tokens of raw queries: synonym terms in either case with and without
\* wildcard, other terms, literal terms plain and already escaped, a term
\* with a dash-star postfix
QueryTokens ==
    { <<"i">>, <<"I", "*">>, <<"j", "*">>, <<"t">>, <<"t", "*">>,
      <<"a", "-", "a">>, <<"b", "-", "b">>, <<"t", "-", "*">>,
      <<"a", "\\", "-", "a">> }

QueryInputs ==
    [query : {pad \o JoinWith(tokens, <<" ">>) \o pad :
                 tokens \in SeqsUpTo(QueryTokens, MaxTokens), pad \in {<<>>, <<" ">>}},
     section : {Nothing, Some(<<"s">>)},
     offset : {0, 10},
     limit : {10}]

InitQuery ==
    /\ now = 0
    /\ indexExists = FALSE
    /\ lastIndex = Nothing
    /\ runs = 0
    /\ pc = "idle"
    /\ rebuild_index = FALSE
    /\ force = FALSE
    /\ FreshRun
    /\ NoBatch
    /\ NoScheduler
    /\ NoRace
    /\ expc = "input"
    /\ input \in QueryInputs
    /\ output = Nothing

\* a call of parse("index", query, section, offset, limit, site)
BuildQuery ==
    /\ expc = "input"
    /\ output' = buildQuery("index", input.query, input.section, input.offset,
                            input.limit, QuerySite)
    /\ expc' = "plan"
    /\ UNCHANGED <<input, pipelineVars, batchVars, schedVars, raceVars>>

\* the escaping of the literal terms, applied to the raw query
EscapeLiteralTerms ==
    /\ expc = "input"
    /\ output' = [once |-> escape_literal_terms(QuerySite.literal_terms, input.query)]
    /\ expc' = "escaped"
    /\ UNCHANGED <<input, pipelineVars, batchVars, schedVars, raceVars>>

\* the escaping applied to its own result
EscapeAgain ==
    /\ expc = "escaped"
    /\ output' = [once |-> output.once,
                  twice |-> escape_literal_terms(QuerySite.literal_terms, output.once)]
    /\ expc' = "escaped twice"
    /\ UNCHANGED <<input, pipelineVars, batchVars, schedVars, raceVars>>

NextQuery == BuildQuery \/ EscapeLiteralTerms \/ EscapeAgain

SpecQuery == InitQuery /\ [][NextQuery]_vars

(***************************************************************************)
(* The concurrency specification: Indexer(site).index(force) in several    *)
(* processes for one site, which share the search engine: its index and    *)
(* the key keys.last_index(site.url).  A run is taken step by step at its  *)
(* accesses to the engine; its crawl and its drain are one step each.      *)
(***************************************************************************)
Procs == 1..NumProcs

InitRace ==
    /\ now = 0
    /\ indexExists = FALSE
    /\ lastIndex = Nothing
    /\ runs = 0
    /\ pc = "idle"
    /\ rebuild_index = FALSE
    /\ force = FALSE
    /\ FreshRun
    /\ NoExtraction
    /\ NoBatch
    /\ NoScheduler
    /\ rpc = [r \in Procs |-> "idle"]
    /\ rforce = [r \in Procs |-> FALSE]
    /\ rread = [r \in Procs |-> Nothing]
    /\ rwrote = [r \in Procs |-> FALSE]

raceRest == <<runs, pc, rebuild_index, force, index_exists, calls, time_diff,
              crawlVars, queue, unfinished, workerVars, errors, tsUnfinished,
              extractVars, batchVars, schedVars>>

\* time passes
RaceTick(d) ==
    /\ now + d <= MaxTime
    /\ now' = now + d
    /\ UNCHANGED <<engineVars, raceVars, raceRest>>

\* a process starts Indexer(site), then index(force=f)
RaceStart(r, f) ==
    /\ rpc[r] = "idle"
    /\ rpc' = [rpc EXCEPT ![r] = "init"]
    /\ rforce' = [rforce EXCEPT ![r] = f]
    /\ UNCHANGED <<now, engineVars, rread, rwrote, raceRest>>

\* Indexer.__init__: search_index_exists()
RaceInfo(r) ==
    /\ rpc[r] = "init"
    /\ rpc' = [rpc EXCEPT ![r] = AfterInfo(FALSE, indexExists)]
    /\ UNCHANGED <<now, engineVars, rforce, rread, rwrote, raceRest>>

\* Indexer.setup_index: create_index, which the engine refuses when the
\* index exists by now, then add_synonyms, which may fail
RaceSetup(r) ==
    /\ rpc[r] = "setup"
    /\ indexExists' = TRUE
    /\ \E ok \in BOOLEAN :
         rpc' = [rpc EXCEPT ![r] = IF indexExists \/ ~ok THEN "failed" ELSE "ready"]
    /\ UNCHANGED <<now, lastIndex, rforce, rread, rwrote, raceRest>>

\* a debounce() that writes the time of its check to the key
TimestampClaimed(last_index, t) == Some(t)

\* the key after debounce(): debounce() reads it and writes nothing
TimestampAfterDebounce(last_index, t) == last_index

\* Indexer.index: the debounce check unless forced
RaceDebounce(r) ==
    /\ rpc[r] = "ready"
    /\ IF rforce[r]
       THEN /\ rpc' = [rpc EXCEPT ![r] = "crawling"]
            /\ UNCHANGED <<rread, lastIndex>>
       ELSE /\ rread' = [rread EXCEPT ![r] = Some([last_index |-> lastIndex, at |-> now])]
            /\ lastIndex' = TimestampAfterDebounce(lastIndex, now)
            /\ rpc' = [rpc EXCEPT ![r] = IF DebounceRaises(lastIndex, now)
                                         THEN "aborted" ELSE "crawling"]
    /\ UNCHANGED <<now, indexExists, rforce, rwrote, raceRest>>

\* the crawl, up to engine_stopped: start_indexing returns at once when the
\* queue is empty
RaceCrawl(r, enqueued) ==
    /\ rpc[r] = "crawling"
    /\ rpc' = [rpc EXCEPT ![r] = IF enqueued = 0 THEN "done" ELSE "started"]
    /\ UNCHANGED <<now, engineVars, rforce, rread, rwrote, raceRest>>

\* start_indexing: the write of the last-indexed timestamp
RaceSetLastIndex(r) ==
    /\ rpc[r] = "started"
    /\ lastIndex' = Some(now)
    /\ rpc' = [rpc EXCEPT ![r] = "joining"]
    /\ UNCHANGED <<now, indexExists, rforce, rread, rwrote, raceRest>>

\* the drain: the documents are written, unless every write fails
RaceDrain(r) ==
    /\ rpc[r] = "joining"
    /\ \E ok \in BOOLEAN : rwrote' = [rwrote EXCEPT ![r] = ok]
    /\ rpc' = [rpc EXCEPT ![r] = "done"]
    /\ UNCHANGED <<now, engineVars, rforce, rread, raceRest>>

\* the process ends
RaceExit(r) ==
    /\ rpc[r] \in {"done", "aborted", "failed"}
    /\ rpc' = [rpc EXCEPT ![r] = "idle"]
    /\ rforce' = [rforce EXCEPT ![r] = FALSE]
    /\ rread' = [rread EXCEPT ![r] = Nothing]
    /\ rwrote' = [rwrote EXCEPT ![r] = FALSE]
    /\ UNCHANGED <<now, engineVars, raceRest>>

NextRace ==
    \/ \E d \in TickSteps : RaceTick(d)
    \/ \E r \in Procs, f \in BOOLEAN : RaceStart(r, f)
    \/ \E r \in Procs : RaceInfo(r)
    \/ \E r \in Procs : RaceSetup(r)
    \/ \E r \in Procs : RaceDebounce(r)
    \/ \E r \in Procs, enqueued \in {0, 1} : RaceCrawl(r, enqueued)
    \/ \E r \in Procs : RaceSetLastIndex(r)
    \/ \E r \in Procs : RaceDrain(r)
    \/ \E r \in Procs : RaceExit(r)

SpecRace == InitRace /\ [][NextRace]_vars

(***************************************************************************)
(* Properties of the indexing run (specification Spec).                    *)
(***************************************************************************)
Enqueued == DOMAIN got
PastInit == {"ready", "aborted", "crawling", "started", "joining", "done"}
Crawling == {"crawling", "started", "joining", "done"}

\* C1: a non-forced run aborts exactly when a last-indexed timestamp exists
\* and is younger than DEBOUNCE_SECONDS, and then writes nothing; with an
\* older timestamp, none, or force it goes on to crawl.
C1_DebounceDecision ==
    /\ pc = "aborted" =>
          /\ ~force
          /\ IsSome(time_diff) /\ Get(time_diff) < DEBOUNCE_SECONDS
          /\ written = {} /\ Enqueued = {} /\ tsUnfinished = Nothing
    /\ (pc \in Crawling /\ IsSome(time_diff)) => Get(time_diff) >= DEBOUNCE_SECONDS

\* C2: until the crawl has ended (nothing scheduled, every item signalled and
\* engine_stopped handled) no worker runs, nothing was dequeued or written:
\* every document scraped so far sits in the queue, its URL in seen_urls.
C2_NoDrainBeforeCrawlEnds ==
    (pc \in {"idle", "init", "drop", "setup", "synonyms", "ready", "crawling"}
        \/ frontier # {} \/ scraped # <<>>) =>
      /\ \A w \in Workers : wpc[w] = "off"
      /\ written = {}
      /\ \A d \in Enqueued : got[d] = 0 /\ attempts[d] = 0 /\ acked[d] = 0
      /\ Range(queue) = Enqueued /\ Len(queue) = Cardinality(Enqueued)
      /\ \A d \in Enqueued : RStripChars(d.url, {"/"}) \in DOMAIN seen_urls

\* C2's case: documents are already queued while the crawl is still running
C2_Witness == pc = "crawling" /\ queue # <<>> /\ frontier # {}

\* C3: no document is ever dequeued, written or acknowledged twice, no two
\* workers hold the same document, and when the run returns from the drain
\* the queue is empty and every enqueued document was dequeued, attempted
\* and acknowledged exactly once.
C3_JoinUntilEmpty ==
    /\ \A d \in Enqueued : got[d] <= 1 /\ attempts[d] <= 1 /\ acked[d] <= 1
    /\ \A w1, w2 \in Workers :
          (w1 # w2 /\ IsSome(wdoc[w1])) => wdoc[w1] # wdoc[w2]
    /\ pc = "done" =>
          /\ queue = <<>> /\ unfinished = 0
          /\ \A d \in Enqueued : got[d] = 1 /\ attempts[d] = 1 /\ acked[d] = 1

\* C3's case: a drain of at least two documents has returned
C3_Witness == pc = "done" /\ Cardinality(Enqueued) >= 2

\* C4: a failing write kills no worker and fails no run: the document is
\* logged and acknowledged, and at the end of the run every enqueued
\* document had its write attempt and its acknowledgement.
C4_WriteFailuresIsolated ==
    /\ \A w \in Workers : wpc[w] # "dead"
    /\ \A d \in Enqueued :
          (attempts[d] = 1 /\ d \notin written) =>
             /\ acked[d] = 1
             /\ \E e \in errors : e[1] \in WriteOutcomes \ {"ok"} /\ e[2] = d.doc_id
    /\ pc = "failed" => Enqueued = {}
    /\ pc = "done" => \A d \in Enqueued : attempts[d] = 1 /\ acked[d] = 1

\* C4's case: a run has completed in which one write failed and another
\* succeeded
C4_Witness ==
    /\ pc = "done"
    /\ \E d \in Enqueued : d \notin written
    /\ written # {}

\* C5 as claimed: the timestamp is written only when every enqueued document
\* has been processed and acknowledged.
C5_TimestampAfterDrain == IsSome(tsUnfinished) => Get(tsUnfinished) = 0

\* C5 amended: the timestamp is written by every run whose crawl enqueued a
\* document, after the crawl has ended and the workers were started and
\* before the join returns, with the time of the write; a run whose crawl
\* enqueued nothing writes none.
C5_TimestampBeforeJoin ==
    /\ IsSome(tsUnfinished) =>
          /\ pc \in {"joining", "done"}
          /\ frontier = {} /\ scraped = <<>>
          /\ Enqueued # {}
          /\ \A w \in Workers : wpc[w] # "off"
          /\ lastIndex = Some(now)
    /\ (pc \in {"joining", "done"} /\ Enqueued # {}) => IsSome(tsUnfinished)
    /\ (pc = "done" /\ Enqueued = {}) => tsUnfinished = Nothing

\* C5's case: the timestamp was written while documents were unacknowledged
C5_Witness == pc = "joining" /\ IsSome(tsUnfinished) /\ Get(tsUnfinished) > 0

IsSynUpdate(c) == c[1] = "synupdate"

\* C6: a completed run has issued one FT.SYNUPDATE per synonym group.
C6_SynonymPush ==
    pc = "done" =>
       SelectSeq(calls, IsSynUpdate)
          = [g \in 1..Len(SynonymGroups) |-> <<"synupdate", SynonymGroups[g]>>]

IsIndexCall(c) == c[1] # "synupdate"

InOrder(cs) ==
    /\ cs # <<>> => cs[1] = <<1, 1>>
    /\ \A i \in 1..(Len(cs) - 1) :
          \/ cs[i + 1][1] = cs[i][1] /\ cs[i + 1][2] = cs[i][2] + 1
          \/ cs[i + 1][1] = cs[i][1] + 1 /\ cs[i + 1][2] = 1

DocsOf(u) == {d \in Range(scraped) \cup Range(queue) \cup Enqueued \cup written :
                 d.url = u}

Draining == {"started", "joining", "done"}

C23_RunTerminates ==
    /\ (pc = "ready") ~> (pc \in {"aborted", "done"})
    /\ [](pc = "aborted" => (requested = {} /\ Enqueued = {}))
    /\ [](Enqueued # {} => pc # "failed")

\* C23's case: a run has completed all of whose writes failed
C23_Witness ==
    /\ pc = "done"
    /\ Cardinality(Enqueued) = 2
    /\ written = {}
    /\ \A d \in Enqueued : acked[d] = 1

\* C26: a run whose crawl ends with no document enqueued starts no worker,
\* writes no document and completes when the crawl ends, without the join;
\* no step of a run that has enqueued nothing changes the timestamp, so the
\* debounce of a following run reads what it would have read without that
\* run, and a run aborts only on a timestamp that exists.
C26_EmptyCrawl ==
    /\ []((pc \in {"started", "joining", "done"} /\ Enqueued = {}) =>
            /\ pc = "done"
            /\ \A w \in Workers : wpc[w] = "off"
            /\ written = {}
            /\ tsUnfinished = Nothing)
    /\ [][(pc = "crawling" /\ pc' # "crawling" /\ Enqueued = {}) => pc' = "done"]_vars
    /\ [][Enqueued' = {} => lastIndex' = lastIndex]_vars
    /\ [](pc = "aborted" => IsSome(lastIndex))

\* C26's case: a later run has completed an empty crawl that fetched pages,
\* and the timestamp is still the one an earlier run wrote
C26_Witness ==
    /\ pc = "done"
    /\ Enqueued = {}
    /\ requested # {}
    /\ errors # {}
    /\ lastIndex = Some(0)
    /\ now > 0

(***************************************************************************)
(* Properties of the section bodies (specification SpecBody).              *)
(***************************************************************************)
\* the place of the first H2 after place, one past the end when none follows
RECURSIVE NextH2(_, _)
NextH2(content, place) ==
    IF place >= Len(content) THEN Len(content) + 1
    ELSE IF content[place + 1].name = "h2" THEN place + 1
    ELSE NextH2(content, place + 1)

\* the texts of the elements among content[from..to], in order
RECURSIVE ElementTexts(_, _, _)
ElementTexts(content, from, to) ==
    IF from > to THEN <<>>
    ELSE (IF content[from].name # "" THEN <<content[from].text>> ELSE <<>>)
             \o ElementTexts(content, from + 1, to)

\* the body made of the tag siblings between a heading and the next
SiblingsBody(content, place) ==
    PartBody(ElementTexts(content, place + 1, NextH2(content, place) - 1))

\* C25: the body of the section of each heading is made of the tag siblings
\* after the heading up to the next H2 or the end, in sitesearch and in
\* docsearch, also for a heading whose title is in its anchor; the two
\* implementations give the same bodies.
C25_SectionBodies ==
    (IsSome(output.sitesearch) /\ IsSome(output.docsearch)) =>
        LET h2s == H2Places(input, 1)
        IN  /\ \A k \in 1..Len(h2s) :
                 /\ Get(output.sitesearch)[k] = SiblingsBody(input, h2s[k])
                 /\ Get(output.docsearch)[k] = SiblingsBody(input, h2s[k])
            /\ Get(output.sitesearch) = Get(output.docsearch)

\* the same of sitesearch alone
SitesearchSectionBodies ==
    IsSome(output.sitesearch) =>
        LET h2s == H2Places(input, 1)
        IN  \A k \in 1..Len(h2s) :
                Get(output.sitesearch)[k] = SiblingsBody(input, h2s[k])

\* docsearch and sitesearch agree on the headings whose title is their string
BodiesAgreeOnStringHeadings ==
    (IsSome(output.sitesearch) /\ IsSome(output.docsearch)) =>
        LET h2s == H2Places(input, 1)
        IN  \A k \in 1..Len(h2s) :
                IsSome(input[h2s[k]].string) =>
                    Get(output.sitesearch)[k] = Get(output.docsearch)[k]

(***************************************************************************)
(* Properties of the s field (specification SpecSection).                  *)
(***************************************************************************)
\* the first path segment of a page below the site, "" for the site's page
FirstSegment(path) == IF path = <<>> THEN <<>> ELSE path[1]

\* C24: every document extracted from a page has for s the first path
\* segment of the page below the site root, "" when there is none, whether
\* the root is configured with or without a trailing slash; that is the part
\* build_hierarchy skips.
C24_SectionIsFirstSegment ==
    expc = "section" =>
        \A k \in 1..Len(output.docs) :
            /\ output.docs[k].s = FirstSegment(input.path)
            /\ output.docs[k].s = HierarchyParts(input.root, SectionUrl(input))[1]

\* the same for a root configured without a trailing slash
SectionIsFirstSegmentBareRoot ==
    (expc = "section" /\ input.root = RStripChars(SiteUrl, {"/"})) =>
        \A k \in 1..Len(output.docs) :
            /\ output.docs[k].s = FirstSegment(input.path)
            /\ output.docs[k].s = HierarchyParts(input.root, SectionUrl(input))[1]

\* build_hierarchy skips the first path segment with either root
SkippedIsFirstSegment ==
    expc = "section" =>
        HierarchyParts(input.root, SectionUrl(input))[1] = FirstSegment(input.path)

(***************************************************************************)
(* Properties of the extraction (specification SpecExtract).               *)
(***************************************************************************)
HasTitle(html) == ~TitleRaises(html) /\ TitleOf(html) # <<>>

\* C8: a page with a non-empty title yields the page document, position 0,
\* then one section document per H2 in order, heading k at position k
\* (from 0) with that heading's title, and all doc_ids differ.
C8_OneDocumentPerHeading ==
    (expc = "prepared" /\ HasTitle(input.html)) =>
       LET docs == output.docs
           h2s == input.html.h2s
       IN  /\ ~output.raised
           /\ Len(docs) = 1 + Len(h2s)
           /\ docs[1].type = TYPE_PAGE /\ docs[1].position = 0
           /\ \A k \in 1..Len(h2s) :
                 /\ docs[k + 1].type = TYPE_SECTION
                 /\ docs[k + 1].position = k - 1
                 /\ docs[k + 1].section_title = PartTitle(h2s[k])
           /\ \A i, j \in DOMAIN docs : i # j => docs[i].doc_id # docs[j].doc_id

\* C8's case: a titled page with two headings of the same title was extracted
C8_Witness ==
    /\ expc = "prepared"
    /\ HasTitle(input.html)
    /\ Len(input.html.h2s) = 2
    /\ PartTitle(input.html.h2s[1]) = PartTitle(input.html.h2s[2])
    /\ Len(output.docs) = 3

\* C9: a page without title text (no title element, no text node in it, or a
\* title that is empty once the site suffix is stripped) raises ParseError
\* and yields no document.
C9_NoTitleFails ==
    (expc \in {"prepared", "parsed"} /\ ~HasTitle(input.html)) =>
       (output.raised /\ output.docs = <<>>)

(***************************************************************************)
(* Properties of the hierarchy (specification SpecHierarchy).              *)
(***************************************************************************)
\* the titles seen holds for the pages at path[1..i], i from `from' on, in
\* order of depth; a page with an empty title counts when keepEmpty
RECURSIVE TitlesFound(_, _, _, _)
TitlesFound(path, seen, from, keepEmpty) ==
    IF from > Len(path) THEN <<>>
    ELSE LET u == CumulativeUrl(path, from)
         IN  (IF u \in DOMAIN seen /\ (keepEmpty \/ seen[u] # <<>>)
              THEN <<seen[u]>> ELSE <<>>)
                 \o TitlesFound(path, seen, from + 1, keepEmpty)

\* C11 as claimed: the hierarchy is the sequence of the titles seen_urls
\* holds for the cumulative URLs of the second segment on, in order of depth;
\* only levels whose URL is not in seen_urls are omitted.
C11_HierarchyOfSeenTitles ==
    expc = "hierarchy" => output = TitlesFound(input.path, input.seen, 2, TRUE)

\* What does hold of build_hierarchy: the hierarchy is the sequence of the
\* non-empty titles seen_urls holds for the cumulative URLs of the second
\* segment on, in order of depth; a level without entry or with an empty
\* title is omitted, the first segment alone and the site never contribute,
\* and with fewer than two segments or no such entry the hierarchy is empty.
HierarchyOfNonEmptyTitles ==
    expc = "hierarchy" =>
       /\ output = TitlesFound(input.path, input.seen, 2, FALSE)
       /\ Len(output) <= Len(input.path) - 1 \/ output = <<>>
       /\ Len(input.path) <= 1 => output = <<>>
       /\ (\A i \in 2..Len(input.path) :
              CumulativeUrl(input.path, i) \notin DOMAIN input.seen) => output = <<>>

\* a case of it: a hierarchy of two titles was built for a URL of three
\* segments whose first segment's page is in seen_urls as well
HierarchyOfTwoTitles ==
    /\ expc = "hierarchy"
    /\ Len(input.path) = 3
    /\ CumulativeUrl(input.path, 1) \in DOMAIN input.seen
    /\ input.seen[CumulativeUrl(input.path, 1)] # <<>>
    /\ output = << <<"t", "2">>, <<"t", "3">> >>

(***************************************************************************)
(* Properties of the batch extraction (specification SpecBatch).           *)
(***************************************************************************)
FileFails(i) ==
    \/ prepare_file(files, i).raised
    \/ docsearch_validate_raises(files[i], prepare_file(files, i).docs)

\* C13: prepare_files returns, whatever the order of completion: the
\* documents of exactly the files that parsed and validated, and one error
\* entry per failing file that names this file.
C13_PerFileIsolation ==
    /\ bpc # "AttributeError"
    /\ bpc = "returned" =>
          /\ Range(all_docs) = UNION {Range(prepare_file(files, i).docs) :
                                         i \in {j \in DOMAIN files : ~FileFails(j)}}
          /\ Len(all_docs) = Cardinality(Range(all_docs))
          /\ Len(file_errors) = Cardinality({i \in DOMAIN files : FileFails(i)})
          /\ \A i \in DOMAIN files :
                FileFails(i) => \E k \in DOMAIN file_errors : file_errors[k][2] = i

(***************************************************************************)
(* Properties of the scheduling (specification SpecSched).                 *)
(***************************************************************************)
StartupJobs == {j \in DOMAIN jobs : jobs[j].kind = "startup"}
Over == {"finished", "failed"}

\* C14: the id of a startup job is in the tracking set as long as the job is
\* queued or running; once the scheduler has set up every site and all
\* startup jobs are over the set is empty, and an empty set then means that
\* no startup job is queued or running.
C14_StartupJobsTracked ==
    /\ \A j \in StartupJobs : jobs[j].status \notin Over => j \in job_ids
    /\ (spc = "run" /\ \A j \in StartupJobs : jobs[j].status \in Over) => job_ids = {}
    /\ (spc = "run" /\ job_ids = {}) => \A j \in StartupJobs : jobs[j].status \in Over

\* C15: once the scheduler runs, every site has exactly one startup job, with
\* force and rebuild_index set, and one cron entry, with neither set; no
\* triggered job fails on its call, and a triggered job that has got past
\* its indexing run reached Indexer.index with the force and rebuild_index
\* of its trigger.
C15_TriggersReachIndex ==
    /\ spc = "run" =>
          \A s \in Sites :
             /\ Cardinality({j \in StartupJobs : jobs[j].site = s}) = 1
             /\ \A j \in StartupJobs : jobs[j].kwargs = StartupKwargs
             /\ {e \in cron : e.site = s} = {[site |-> s, kwargs |-> CronKwargs]}
    /\ \A j \in DOMAIN jobs :
          jobs[j].kind \in {"startup", "cron"} =>
             /\ jobs[j].error # "TypeError"
             /\ jobs[j].status \in {"indexed", "finished"} =>
                   jobs[j].indexer = Some([rebuild_index |-> jobs[j].kwargs.rebuild_index,
                                           force |-> jobs[j].kwargs.force])

\* C16: DebounceError never fails a job; a job is debounced exactly when its
\* own check, on the timestamp and the time it read, says so, and not when
\* forced; a debounced job goes on to return True and to remove its id from
\* the tracking set, and it leaves the timestamp as it found it.
C16_DebounceSwallowed ==
    \A j \in DOMAIN jobs :
       /\ jobs[j].error # "DebounceError"
       /\ jobs[j].debounced =>
             /\ jobs[j].status \in {"indexed", "finished"}
             /\ ~BoundForce(jobs[j].kwargs)
       /\ IsSome(jobs[j].at) =>
             (jobs[j].debounced
                <=> DebounceRaises(Get(jobs[j].last_index), Get(jobs[j].at)))
       /\ (jobs[j].debounced /\ jobs[j].status = "finished") =>
             (jobs[j].result = Some(TRUE) /\ j \notin job_ids)

\* C16's case: a debounced job has returned True, and a job after it has
\* indexed the site and written a newer timestamp
C16_Witness ==
    \E j, k \in DOMAIN jobs :
       /\ j < k
       /\ jobs[j].debounced /\ jobs[j].status = "finished"
       /\ jobs[j].result = Some(TRUE)
       /\ jobs[k].status = "finished" /\ ~jobs[k].debounced
       /\ IsSome(lastIndex) /\ Get(lastIndex) > Get(Get(jobs[j].last_index))

(***************************************************************************)
(* Properties of docsearch's query parser (specification SpecDocQuery).    *)
(***************************************************************************)
\* a token with its trailing "-*" reduced to "*"
DashStarReduced(token) ==
    IF Len(token) >= 2 /\ SubSeq(token, Len(token) - 1, Len(token)) = <<"-", "*">>
    THEN SubSeq(token, 1, Len(token) - 2) \o <<"*">>
    ELSE token

\* C17: the plan holds the trimmed query with every token's trailing "-*"
\* reduced to "*", then the summary of body with one fragment and context
\* length 10, the highlighting of title, body and section_title, and the
\* caller's offset and limit; the empty query yields such a plan as well.
C17_PlanDirectives ==
    expc = "plan" =>
       LET tokens == Split(StripChars(input.query, Whitespace), " ")
       IN  /\ output.query_string
                = JoinWith([k \in DOMAIN tokens |-> DashStarReduced(tokens[k])], <<" ">>)
           /\ output.summarize = [fields |-> <<"body">>, context_len |-> Some(10),
                                  num_frags |-> Some(1)]
           /\ output.highlight = [fields |-> <<"title", "body", "section_title">>]
           /\ output.paging = <<input.offset, input.limit>>

\* C21: no character of the unsafe set is left in the query string of the
\* plan, and the other characters of the trimmed query are all kept.
C21_UnsafeCharsRemoved ==
    expc = "plan" =>
       /\ \A k \in DOMAIN output.query_string :
             output.query_string[k] \notin Range(UNSAFE_CHARS)
       /\ Len(output.query_string) <= Len(StripChars(input.query, Whitespace))

(***************************************************************************)
(* Properties of the query builder (specification SpecQuery).              *)
(***************************************************************************)
SynonymTerms == UNION {SynonymsOf(g) : g \in 1..NumGroups}

\* C18: token by token, for the tokens the other steps leave alone (those
\* without hyphen): a token that without its trailing "*" and in lower case
\* is a synonym term is emitted without the "*", any other token is emitted
\* as it is, trailing "*" included.
C18_SynonymTokensExact ==
    (expc = "plan" /\ input.section = Nothing) =>
       LET tokens == Split(StripChars(input.query, Whitespace), " ")
           emitted == Split(output[2], " ")
       IN  /\ Len(emitted) = Len(tokens)
           /\ \A k \in DOMAIN tokens :
                 ~Contains(tokens[k], <<"-">>) =>
                    emitted[k] =
                       IF \E term \in SynonymTerms :
                             Lower(tokens[k]) \in {term, term \o <<"*">>}
                       THEN RStripChars(tokens[k], {"*"})
                       ELSE tokens[k]

\* C18's case: a query of a synonym term in upper case with wildcard and of
\* another term with wildcard was built
C18_Witness ==
    /\ expc = "plan"
    /\ input.query = <<"I", "*", " ", "t", "*">>
    /\ output[2] = <<"I", " ", "t", "*">>

\* C19: with a current section S the query string is
\* ((@s:S) => {$weight: 10} Q) | Q, Q being the query string built without
\* section; without section it holds no section clause; in both cases it
\* stands between the index and the directives.
C19_SectionBoost ==
    expc = "plan" =>
       LET Q == query_string(input.query, Nothing, QuerySite)
       IN  /\ output[1] = "index"
           /\ SubSeq(output, 3, Len(output)) = Directives(input.offset, input.limit)
           /\ IF IsSome(input.section)
              THEN output[2] =
                      <<"(", "(", "@", "s", ":">> \o Get(input.section)
                         \o <<")", " ", "=", ">", " ", "{", "$", "w", "e", "i", "g",
                              "h", "t", ":", " ", "1", "0", "}", " ">>
                         \o Q \o <<")", " ", "|", " ">> \o Q
              ELSE ~Contains(output[2], <<"@", "s", ":">>)

\* C19's case: a query of one term was built with a current section
C19_Witness ==
    /\ expc = "plan"
    /\ input.query = <<"t">>
    /\ IsSome(input.section)
    /\ Len(output[2]) > 2 * Len(input.query)

\* a token with every hyphen escaped
RECURSIVE HyphensEscaped(_)
HyphensEscaped(token) ==
    IF token = <<>> THEN <<>>
    ELSE (IF Head(token) = "-" THEN <<"\\", "-">> ELSE <<Head(token)>>)
            \o HyphensEscaped(Tail(token))

\* C20: a token that is a literal term comes out with each hyphen escaped,
\* every other token as it is, and escaping the result again changes nothing.
C20_EscapingIdempotent ==
    expc = "escaped twice" =>
       LET tokens == Split(input.query, " ")
           escaped == Split(output.once, " ")
       IN  /\ Len(escaped) = Len(tokens)
           /\ \A k \in DOMAIN tokens :
                 escaped[k] = IF tokens[k] \in Range(LiteralTerms)
                              THEN HyphensEscaped(tokens[k]) ELSE tokens[k]
           /\ output.twice = output.once

\* C20's case: a query of two literal terms was escaped twice
C20_Witness ==
    /\ expc = "escaped twice"
    /\ input.query = <<"a", "-", "a", " ", "b", "-", "b">>
    /\ output.twice = <<"a", "\\", "-", "a", " ", "b", "\\", "-", "b">>

(***************************************************************************)
(* Properties of concurrent runs (specification SpecRace).                 *)
(***************************************************************************)
PastCheck == {"crawling", "started", "joining", "done"}

\* C22: no run holds a lock on the site: a non-forced run crawls exactly
\* when the timestamp it read at its check allowed it, whatever the other
\* runs do meanwhile, and the timestamp changes only in start_indexing of a
\* run whose crawl is over; so two runs that read the timestamp before
\* either wrote it both crawl and write.
C22_DebounceIsNoLock ==
    /\ [](\A r \in Procs :
            (rpc[r] \in PastCheck /\ ~rforce[r]) =>
               /\ IsSome(rread[r])
               /\ ~DebounceRaises(Get(rread[r]).last_index, Get(rread[r]).at))
    /\ [][lastIndex' # lastIndex =>
             \E r \in Procs : rpc[r] = "started" /\ rpc'[r] = "joining"]_vars

\* C22's case: two non-forced runs both found no timestamp, both crawled and
\* both wrote documents
C22_Witness ==
    \E r1, r2 \in Procs :
       /\ r1 # r2
       /\ ~rforce[r1] /\ ~rforce[r2]
       /\ rread[r1] = Some([last_index |-> Nothing, at |-> 0])
       /\ IsSome(rread[r2]) /\ Get(rread[r2]).last_index = Nothing
       /\ rpc[r1] = "done" /\ rpc[r2] = "done"
       /\ rwrote[r1] /\ rwrote[r2]

====
